---- MODULE Spec2Model ----
(***************************************************************************)
(* Device session state machine of the Neo ADB test framework              *)
(* (src/adb_test.py, src/neo_test.py, src/camera/sanity_checks.py).        *)
(*                                                                         *)
(* The session object (ADBSession / NeoADBSession) caches device state in  *)
(* its attributes; every method is a straight-line sequence of transport   *)
(* commands whose results are asserted or ignored.  A method is modelled   *)
(* as an operator on a "machine" record m that is threaded through the     *)
(* statements of the method in source order:                               *)
(*    m.adb   the attributes of the session object                         *)
(*    m.dev   the attached device (the process behind subprocess.run)      *)
(*    m.log   the transport commands and user interactions issued so far   *)
(*            by the running call, in the order the code issues them       *)
(*    m.err   the exception that is propagating, or NoErr                  *)
(*    m.res   the CommandResult of the last command                        *)
(*    m.msg   which message the propagating ADBAssertionError carries      *)
(*    m.ret   the value returned by the last helper, by its type           *)
(*    m.faults    how many commands of this call the environment has made  *)
(*                fail (exit code 1, or no answer before the timeout)      *)
(*    m.attended  TestSession.attended                                     *)
(* A statement executed while an exception propagates does nothing.        *)
(*                                                                         *)
(* stdout is a sequence of lines (without their newline); a regular        *)
(* expression that is a literal text is matched against whole lines.       *)
(***************************************************************************)
EXTENDS Integers, Sequences, FiniteSets, TLC

VARIABLES
    adb,        \* attributes of the NeoADBSession object
    dev,        \* state of the attached device
    attended,   \* TestSession.attended
    bound,      \* the session has been bound (the constructor has returned)
    result,     \* a CommandResult object that a caller holds and inspects
    obs         \* the call that has just ended: its name (op) and argument
                \* (arg), what it issued (log), the exception it raised (err),
                \* and the session attributes (pre) and the device (predev)
                \* it started on; op = "idle" between calls

vars == <<adb, dev, attended, bound, result, obs>>

-----------------------------------------------------------------------------
(* Exceptions *)

NoErr == "none"
ADBAssertionError == "ADBAssertionError"
TimeoutExpired == "TimeoutExpired"
ValueError == "ValueError"
KeyError == "KeyError"

Raise(m, e) == [m EXCEPT !.err = e]
\* raise ADBAssertionError(f"FAILED ...")
Fail(m, msg) == [m EXCEPT !.err = ADBAssertionError, !.msg = msg]
TypeError == "TypeError"
IndexError == "IndexError"
Ok(m) == m.err = NoErr

-----------------------------------------------------------------------------
(* Literals of the source *)

HAMMERHEAD == "hammerhead"
GREATWHITE == "greatwhite"
DeviceTypeValues == {HAMMERHEAD, GREATWHITE}

(* class BoardType(Enum): the member of a value; a value outside the table *)
(* has no member (Enum lookup raises ValueError).                          *)
BoardTypeTable ==
    { <<0, "SN_UNKNOWN">>, <<1, "HN_UNKNOWN">>, <<160, "SN_DEV0">>,
      <<161, "SN_P1">>, <<162, "SN_DEV0_1">>, <<163, "SN_RESERVED">>,
      <<164, "SN_EVT1">>, <<165, "SN_EVT1_1">>, <<176, "HN_CONFIG_DEV0">>,
      <<177, "HN_CONFIG_DEV0_1">>, <<178, "HN_PREP1">> }
BoardTypeValues == { e[1] : e \in BoardTypeTable }
BoardTypeMember(v) == (CHOOSE e \in BoardTypeTable : e[1] = v)[2]

Unset == "unset"

golden_bin == "/vendor/firmware_mnt/image/kiwi/bdwlan.elf"
bt_file == "/sys/devices/soc0/platform_subtype_id"
OverlayLine == "overlay on /system type overlay"
FactoryLine == "androidboot.factorytest=1"
VendorServices == {"captureengineservice", "vendor.camera-provider-2-7"}

-----------------------------------------------------------------------------
(* The attached device: what the process started by subprocess.run answers. *)
(* A device is in Android ("android") or in the bootloader ("fastboot").    *)
(* Root, the overlay remount, the SELinux mode and stopped services last    *)
(* for one boot cycle; factory mode is kept across reboots.                 *)

Reply(d, rc, out) == [dev |-> d, rc |-> rc, out |-> out, hang |-> FALSE]
Hang(d) == [dev |-> d, rc |-> 0, out |-> <<>>, hang |-> TRUE]

\* A fresh boot of Android.
Boot(d) ==
    [d EXCEPT !.mode = "android", !.root = FALSE, !.remounted = FALSE,
              !.enforcing = TRUE, !.running = VendorServices]

\* 'adb shell <c>' on a device running Android.
ShellReact(d, c) ==
    CASE c = <<"id", "-u">> ->
            Reply(d, 0, <<IF d.root THEN "0" ELSE "2000">>)
      [] c = <<"mount">> ->
            Reply(d, 0, <<"/dev/root on / type ext4">>
                        \o (IF d.remounted THEN <<OverlayLine>> ELSE <<>>))
      [] c = <<"getprop", "ro.product.device">> -> Reply(d, 0, <<d.name>>)
      [] c[1] = "getprop" -> Reply(d, 0, <<"value">>)
      [] c = <<"uname", "-a">> -> Reply(d, 0, <<"Linux localhost">>)
      [] c = <<"cat", "/proc/cmdline">> ->
            IF d.root
            THEN Reply(d, 0, <<IF d.factory THEN FactoryLine ELSE "console=ttyMSM0">>)
            ELSE Reply(d, 1, <<>>)
      [] c = <<"cat", bt_file>> ->
            IF d.root THEN Reply(d, 0, <<d.board>>) ELSE Reply(d, 1, <<>>)
      [] c[1] \in {"sha1sum", "stat"} ->
            IF d.root THEN Reply(d, 0, <<"value">>) ELSE Reply(d, 1, <<>>)
      [] c = <<"getenforce">> ->
            Reply(d, 0, <<IF d.enforcing THEN "Enforcing" ELSE "Permissive">>)
      [] c[1] = "setenforce" ->
            IF d.root THEN Reply([d EXCEPT !.enforcing = (c[2] = "1")], 0, <<>>)
            ELSE Reply(d, 1, <<>>)
      [] c[1] = "setprop" /\ c[2] = "ctl.stop" ->
            IF d.root THEN Reply([d EXCEPT !.running = @ \ {c[3]}], 0, <<>>)
            ELSE Reply(d, 1, <<>>)
      [] c[1] = "setprop" /\ c[2] = "ctl.start" ->
            IF d.root THEN Reply([d EXCEPT !.running = @ \cup {c[3]}], 0, <<>>)
            ELSE Reply(d, 1, <<>>)
      [] c[1] = "camcapture" -> Reply(d, 0, <<>>)
      [] OTHER -> Reply(d, 1, <<>>)

\* 'adb -s <serial> <c>'
AdbReact(d, c) ==
    IF d.mode # "android"
    THEN IF c[1] = "wait-for-device" THEN Hang(d) ELSE Reply(d, 1, <<>>)
    ELSE CASE c = <<"root">> -> Reply([d EXCEPT !.root = TRUE], 0, <<>>)
           [] c = <<"unroot">> -> Reply([d EXCEPT !.root = FALSE], 0, <<>>)
           [] c = <<"remount">> ->
                IF d.root THEN Reply([d EXCEPT !.remounted = TRUE], 0, <<>>)
                ELSE Reply(d, 1, <<>>)
           [] c = <<"wait-for-device">> -> Reply(d, 0, <<>>)
           [] c = <<"wait-for-device", "root">> ->
                Reply([d EXCEPT !.root = TRUE], 0, <<>>)
           [] c = <<"reboot", "bootloader">> ->
                Reply([d EXCEPT !.mode = "fastboot"], 0, <<>>)
           [] c[1] = "shell" -> ShellReact(d, Tail(c))
           [] OTHER -> Reply(d, 1, <<>>)

\* 'fastboot -s <serial> <c>': fastboot waits for a device that is not in
\* the bootloader.
FastbootReact(d, c) ==
    IF d.mode # "fastboot" THEN Hang(d)
    ELSE CASE c = <<"oem", "enable-factory-mode">> ->
                Reply([d EXCEPT !.factory = TRUE], 0, <<>>)
           [] c = <<"oem", "disable-factory-mode">> ->
                Reply([d EXCEPT !.factory = FALSE], 0, <<>>)
           [] c = <<"oem", "device-info">> -> Reply(d, 0, <<>>)
           [] c = <<"reboot">> -> Reply(Boot(d), 0, <<>>)
           [] OTHER -> Reply(d, 1, <<>>)

DeviceReact(d, cmd) ==
    IF cmd[1] = "adb" THEN AdbReact(d, Tail(cmd)) ELSE FastbootReact(d, Tail(cmd))

-----------------------------------------------------------------------------
(* Sequencing.  A command can end in more than one way, so a statement     *)
(* maps a machine to the set of machines it can leave, and a sequence of   *)
(* statements maps a set of machines to a set of machines.  Statement F    *)
(* runs on each machine of M on which no exception is propagating.         *)

Then(M, F(_)) == UNION { IF x.err = NoErr THEN F(x) ELSE {x} : x \in M }

\* try: M  except e: raise e2
Except(M, e, e2) == { IF x.err = e THEN Raise(x, e2) ELSE x : x \in M }

-----------------------------------------------------------------------------
(* Transport runner *)

IsCmd(e) == e.ev \in {"run", "timeout"}
Cmds(log) == SelectSeq(log, IsCmd)

MaxFaults == 2      \* commands of one call that the environment makes fail

\* The ways the process of a command can end: as the device answers, or,
\* injected by the environment, with a non-zero exit code and no effect on
\* the device, or not before the timeout.
Endings(x, r) ==
    (IF r.hang THEN {"timeout"} ELSE {"ok"})
    \cup (IF x.faults < MaxFaults THEN {"exit", "timeout"} ELSE {})

\* CommandResult.__init__: the JSON cache is no attribute yet
NoJson == [kind |-> "absent", status |-> "absent"]
NewResult(rc, out) ==
    [rc |-> rc, out |-> out, stderr |-> <<>>, json_data |-> NoJson]

Issue(x, cmd, r, ending) ==
    IF ending = "timeout"
    THEN [x EXCEPT !.log = Append(@, [ev |-> "timeout", cmd |-> cmd, rc |-> 0]),
                   !.faults = IF r.hang THEN @ ELSE @ + 1,
                   !.err = TimeoutExpired]
    ELSE IF ending = "exit"
    THEN [x EXCEPT !.log = Append(@, [ev |-> "run", cmd |-> cmd, rc |-> 1]),
                   !.faults = @ + 1,
                   !.res = NewResult(1, <<>>)]
    ELSE [x EXCEPT !.dev = r.dev,
                   !.log = Append(@, [ev |-> "run", cmd |-> cmd, rc |-> r.rc]),
                   !.res = NewResult(r.rc, r.out)]

\* subprocess.run(cmd, ..., timeout=timeout_sec) and createCommandResult:
\* the process exits and a CommandResult is made, or the timeout expires and
\* TimeoutExpired is raised.
run_cli_command(M, cmd) ==
    Then(M, LAMBDA x :
        UNION { { Issue(x, cmd, r, ending) : ending \in Endings(x, r) } :
                r \in {DeviceReact(x.dev, cmd)} })

run_command(M, cmd) == run_cli_command(M, <<"adb">> \o cmd)
run_fastboot_command(M, cmd) == run_cli_command(M, <<"fastboot">> \o cmd)
run_shell_command(M, cmd) == run_command(M, <<"shell">> \o cmd)

-----------------------------------------------------------------------------
(* CommandResult, on the result x.res of the last command *)

\* succeeded that takes every exit code but a signal's for success
succeeded_unless_killed(res) == res.rc >= 0

succeeded(res) == res.rc = 0

\* the texts of the ADBAssertionError messages
MsgFailed == "FAILED (returncode)"
MsgMatch == "stdout was supposed to match regex"
MsgSingle == "stdout was supposed to be a single string"
MsgInt == "stdout was supposed to be an integer"
MsgJson == "stdout was supposed to contain valid json"
MsgMfg == "didn't report 'Success'"

\* What the f-string of each message is formatted from: failure_message
\* has returncode, command_str, stderr and stdout; the other messages have
\* command_str and stdout (and the pattern, or the decode error)
Carries(msg) ==
    IF msg = MsgFailed THEN {"argv", "exit code", "stderr", "stdout"}
    ELSE IF msg \in {MsgMatch, MsgSingle, MsgInt, MsgJson, MsgMfg}
    THEN {"argv", "stdout"}
    ELSE {}

result_assert_succeeded(M) ==
    Then(M, LAMBDA x : {IF ~succeeded(x.res) THEN Fail(x, MsgFailed) ELSE x})

\* stdout is the sequence of its lines, each without its newline.  A line
\* that has blanks around its text, and the text str.strip() leaves of it:
StripTable ==
    { <<" ", "">>, <<" abc ", "abc">>, <<" 7 ", "7">> }
strip(line) ==
    IF \E e \in StripTable : e[1] = line
    THEN (CHOOSE e \in StripTable : e[1] = line)[2]
    ELSE line
IsBlank(line) == strip(line) = ""

\* a literal text occurs in a line: the line is the text, or has it inside
Within == { <<"abc", " abc ">>, <<"7", " 7 ">>, <<"7", "-7">>, <<"7", "x7">> }
occurs(lit, line) == lit = line \/ <<lit, line>> \in Within

\* re.search(pattern, stdout, re.MULTILINE) is not None, pattern a literal
contains(res, pattern) == \E i \in 1..Len(res.out) : occurs(pattern, res.out[i])

result_assert_contains(M, pattern) ==
    Then(M, LAMBDA x : {IF ~contains(x.res, pattern) THEN Fail(x, MsgMatch) ELSE x})

\* Optional[str]
None == [absent |-> TRUE, val |-> ""]
Some(v) == [absent |-> FALSE, val |-> v]

\* What a helper returns, by the type of the value: bool, str, int,
\* Optional[str], dict[str, str] (the set of its items) and the serial
\* number taken from a device listing.
NoRet ==
    [b |-> FALSE, s |-> "", i |-> 0, o |-> None, kv |-> {},
     serial |-> [absent |-> TRUE, val |-> <<>>]]

\* A pattern with a literal text and at most one capture group: no group
\* ("none"), the text as the group ("text"), or a group that a match need
\* not take part in, as in (x)?text ("unmatched").  re_result.group(1) is
\* the text, None for a group that took no part, and raises IndexError when
\* the pattern has no group; str(None) is the string 'None'.
search(M, pattern) ==
    Then(M, LAMBDA x :
        {IF ~contains(x.res, pattern.lit) THEN [x EXCEPT !.ret.o = None]
         ELSE IF pattern.group = "none" THEN Raise(x, IndexError)
         ELSE IF pattern.group = "unmatched" THEN [x EXCEPT !.ret.o = Some("None")]
         ELSE [x EXCEPT !.ret.o = Some(pattern.lit)]})

result_assert_search(M, pattern) ==
    Then(search(M, pattern), LAMBDA x :
        {IF x.ret.o = None THEN Fail(x, MsgMatch)
         ELSE [x EXCEPT !.ret.s = x.ret.o.val]})

\* assert_string: success and exactly one non-empty line; returns it.
\* assert_string without the test of the number of lines
result_assert_string_any_lines(M) ==
    Then(result_assert_succeeded(M), LAMBDA x :
        {IF \A i \in 1..Len(x.res.out) : IsBlank(x.res.out[i])
         THEN Fail(x, MsgSingle)
         ELSE [x EXCEPT !.ret.s = strip(x.res.out[1])]})

result_assert_string(M) ==
    Then(result_assert_succeeded(M), LAMBDA x :
        {IF (\A i \in 1..Len(x.res.out) : IsBlank(x.res.out[i])) \/ Len(x.res.out) > 1
         THEN Fail(x, MsgSingle)
         ELSE [x EXCEPT !.ret.s = strip(x.res.out[1])]})

\* int(text) of the texts that are base-10 integers
IntTexts ==
    { <<"0", 0>>, <<"2000", 2000>>, <<"160", 160>>, <<"161", 161>>,
      <<"178", 178>>, <<"999", 999>>, <<"7", 7>>, <<"-7", 0 - 7>> }
IsIntText(t) == \E e \in IntTexts : e[1] = t
IntOf(t) == (CHOOSE e \in IntTexts : e[1] = t)[2]

\* assert_int whose handler catches every exception, not ValueError alone
result_assert_int_catches_all(M) ==
    { IF x.err # NoErr THEN Fail(x, MsgInt)
      ELSE IF ~IsIntText(x.ret.s) THEN Fail(x, MsgInt)
      ELSE [x EXCEPT !.ret.i = IntOf(x.ret.s)] : x \in result_assert_string(M) }

\* assert_int: int(assert_string()); ValueError becomes ADBAssertionError.
result_assert_int(M) ==
    Then(result_assert_string(M), LAMBDA x :
        {IF ~IsIntText(x.ret.s) THEN Fail(x, MsgInt)
         ELSE [x EXCEPT !.ret.i = IntOf(x.ret.s)]})

\* stderr is the sequence of its pieces: runs of white space, and between
\* them the runs of other characters.  str.split() gives the latter.
Blanks == {" ", "\n"}
split(text) == SelectSeq(text, LAMBDA piece : piece \notin Blanks)

\* re.search(pattern, line) of a pattern with two groups, as (\w+)=(\w+):
\* the tokens it matches, with group(1) and group(2)
KeyValueTable ==
    { <<"a=1", "a", "1">>, <<"a=2", "a", "2">>, <<"b=1", "b", "1">> }
re_search(pattern, line) ==
    IF pattern = "key=value" /\ \E e \in KeyValueTable : e[1] = line
    THEN LET e == CHOOSE e \in KeyValueTable : e[1] = line
         IN  [absent |-> FALSE, key |-> e[2], val |-> e[3]]
    ELSE [absent |-> TRUE, key |-> "", val |-> ""]

\* the loop body that keeps the value a key already has
store_keeps_first(kv, pattern, line) ==
    LET re_result == re_search(pattern, line)
    IN  IF re_result.absent \/ \E e \in kv : e[1] = re_result.key THEN kv
        ELSE kv \cup {<<re_result.key, re_result.val>>}

\* the body of the loop of assert_stderr_keyvalue:
\* kv[re_result.group(1)] = re_result.group(2), or continue
store(kv, pattern, line) ==
    LET re_result == re_search(pattern, line)
    IN  IF re_result.absent THEN kv
        ELSE {e \in kv : e[1] # re_result.key}
                 \cup {<<re_result.key, re_result.val>>}

\* for line in self.completed_proc.stderr.split(): ..., from kv
RECURSIVE for_line(_, _, _)
for_line(kv, pattern, lines) ==
    IF lines = <<>> THEN kv
    ELSE for_line(store(kv, pattern, Head(lines)), pattern, Tail(lines))

assert_stderr_keyvalue(M, pattern) ==
    Then(result_assert_succeeded(M), LAMBDA x :
        {[x EXCEPT !.ret.kv = for_line({}, pattern, split(x.res.stderr))]})

\* json.loads(text) of the texts that are JSON documents: the kind of the
\* value and, for an object, what its 'status' member is
JsonTexts ==
    { <<"{\"status\":\"Success\"}", [kind |-> "object", status |-> "Success"]>>,
      <<"{\"status\":\"Fail\"}", [kind |-> "object", status |-> "Fail"]>>,
      <<"{}", [kind |-> "object", status |-> "absent"]>>,
      <<"[]", [kind |-> "array", status |-> "absent"]>>,
      <<"7", [kind |-> "number", status |-> "absent"]>>,
      <<"-7", [kind |-> "number", status |-> "absent"]>> }
\* the lines of stdout that are not blank: json.loads skips white space
\* around the document, and two documents are no document
TextLines(out) == SelectSeq(out, LAMBDA line : ~IsBlank(line))
IsJson(out) ==
    /\ Len(TextLines(out)) = 1
    /\ \E e \in JsonTexts : e[1] = strip(TextLines(out)[1])
loads(out) == (CHOOSE e \in JsonTexts : e[1] = strip(TextLines(out)[1]))[2]

\* assert_json: json_data is assigned only when json.loads returned
assert_json(M) ==
    Then(M, LAMBDA x :
        {IF ~IsJson(x.res.out) THEN Fail(x, MsgJson)
         ELSE [x EXCEPT !.res.json_data = loads(x.res.out)]})

\* NeoCommandResult.assert_mfg_succeeded: json_data['status'] raises
\* KeyError on an object without the member and TypeError on a value that
\* is no object
assert_mfg_succeeded(M) ==
    Then(assert_json(result_assert_succeeded(M)), LAMBDA x :
        {IF x.res.json_data.kind # "object" THEN Raise(x, TypeError)
         ELSE IF x.res.json_data.status = "absent" THEN Raise(x, KeyError)
         ELSE IF x.res.json_data.status # "Success" THEN Fail(x, MsgMfg)
         ELSE x})

-----------------------------------------------------------------------------
(* TestSession: the two interaction points *)

Interact(x, ev, text) ==
    [x EXCEPT !.log = Append(@, [ev |-> ev, cmd |-> <<text>>, rc |-> 0])]

\* attended: input("Press ENTER to continue ..."); else time.sleep(timeout_secs)
prompt_user_timed_process(M, wait_reason) ==
    Then(M, LAMBDA x :
        {IF x.attended THEN Interact(x, "input", wait_reason)
         ELSE Interact(x, "sleep", wait_reason)})

\* prompt_user_validate that asks for the confirmation in either mode
prompt_user_validate_always_asks(M, confirm_item) ==
    Then(M, LAMBDA x : {Interact(x, "input", confirm_item)})

\* attended: input("Press ENTER to confirm & continue ..."); else only a log line
prompt_user_validate(M, confirm_item) ==
    Then(M, LAMBDA x :
        {IF x.attended THEN Interact(x, "input", confirm_item) ELSE x})

-----------------------------------------------------------------------------
(* ADBSession *)

\* r = self.run_shell_command(cmd); r.assert_succeeded()
assert_succeeded(M, cmd) == result_assert_succeeded(run_shell_command(M, cmd))

assert_string(M, cmd) == result_assert_string(run_shell_command(M, cmd))

assert_log_shell_command(M, cmd) == result_assert_string(run_shell_command(M, cmd))

assert_file_int(M, filename) ==
    result_assert_int(run_shell_command(M, <<"cat", filename>>))

assert_get_prop(M, prop_name) == assert_string(M, <<"getprop", prop_name>>)

assert_set_prop(M, prop_name, prop_value) ==
    assert_succeeded(M, <<"setprop", prop_name, prop_value>>)

assert_log_prop(M, prop_name) == assert_get_prop(M, prop_name)

is_root(M) ==
    Then(result_assert_int(
             result_assert_succeeded(run_shell_command(M, <<"id", "-u">>))),
         LAMBDA x : {[x EXCEPT !.ret.b = (x.ret.i = 0)]})

is_remounted(M) ==
    Then(result_assert_succeeded(run_shell_command(M, <<"mount">>)),
         LAMBDA x : {[x EXCEPT !.ret.b = contains(x.res, OverlayLine)]})

\* NeoADBSession.is_factory_mode
is_factory_mode(M) ==
    Then(M, LAMBDA x :
        IF ~x.adb.root THEN {[x EXCEPT !.ret.b = FALSE]}
        ELSE Then(result_assert_succeeded(
                      run_shell_command({x}, <<"cat", "/proc/cmdline">>)),
                  LAMBDA y : {[y EXCEPT !.ret.b = contains(y.res, FactoryLine)]}))

\* the on_root of ADBSession, which NeoADBSession overrides: pass
on_root_not_overridden(M) == M

\* NeoADBSession.on_root: super().on_root() does nothing
on_root(M) ==
    Then(is_factory_mode(M), LAMBDA x : {[x EXCEPT !.adb.factory_mode = x.ret.b]})

\* assert_root without the early return on the cached flag
assert_root_always_escalates(M) ==
    on_root(Then(result_assert_succeeded(run_command(M, <<"root">>)),
                 LAMBDA y : {[y EXCEPT !.adb.root = TRUE]}))

assert_root(M) ==
    Then(M, LAMBDA x :
        IF x.adb.root THEN {x}
        ELSE on_root(Then(result_assert_succeeded(run_command({x}, <<"root">>)),
                          LAMBDA y : {[y EXCEPT !.adb.root = TRUE]})))

unroot(M) ==
    Then(result_assert_succeeded(run_command(M, <<"unroot">>)),
         LAMBDA x : {[x EXCEPT !.adb.root = FALSE]})

\* assert_remount that escalates before it remounts
assert_remount_escalates_first(M) ==
    Then(M, LAMBDA x :
        IF x.adb.remounted THEN {x}
        ELSE Then(result_assert_succeeded(run_command(assert_root({x}), <<"remount">>)),
                  LAMBDA y : {[y EXCEPT !.adb.remounted = TRUE]}))

assert_remount(M) ==
    Then(M, LAMBDA x :
        IF x.adb.remounted THEN {x}
        ELSE Then(result_assert_succeeded(run_command({x}, <<"remount">>)),
                  LAMBDA y : {[y EXCEPT !.adb.remounted = TRUE]}))

\* wait_for_device that gives up waiting silently when the timeout expires
wait_for_device_swallows_timeout(M, wait_root) ==
    Except(result_assert_succeeded(
               run_command(M, <<"wait-for-device">>
                              \o (IF wait_root THEN <<"root">> ELSE <<>>))),
           TimeoutExpired, NoErr)

\* wait_for_device that waits once more when the wait has failed
wait_for_device_retries(M, wait_root) ==
    Then(M, LAMBDA x :
        UNION { IF y.err # ADBAssertionError THEN {y}
                ELSE result_assert_succeeded(
                         run_command({[y EXCEPT !.err = NoErr, !.msg = ""]},
                                     <<"wait-for-device">>
                                     \o (IF wait_root THEN <<"root">> ELSE <<>>)))
                : y \in result_assert_succeeded(
                            run_command({x}, <<"wait-for-device">>
                                \o (IF wait_root THEN <<"root">> ELSE <<>>))) })

wait_for_device(M, wait_root) ==
    result_assert_succeeded(
        run_command(M, <<"wait-for-device">> \o (IF wait_root THEN <<"root">> ELSE <<>>)))

is_selinux_enforcing(M) ==
    Then(assert_string(M, <<"getenforce">>),
         LAMBDA x : {[x EXCEPT !.ret.b = (x.ret.s = "Enforcing")]})

assert_set_selinux_enforcing(M, enforcing) ==
    Then(is_selinux_enforcing(M), LAMBDA x :
        IF x.ret.b = enforcing THEN {x}
        ELSE assert_succeeded(assert_root({x}),
                              <<"setenforce", IF enforcing THEN "1" ELSE "0">>))

assert_ctl_stop(M, service) == assert_set_prop(M, "ctl.stop", service)
assert_ctl_start(M, service) == assert_set_prop(M, "ctl.start", service)

\* ADBSession.refresh_device_state that leaves remounted as it was
base_refresh_device_state_keeps_remounted(M) ==
    LET M1 == Then(is_root(M), LAMBDA x : {[x EXCEPT !.adb.root = x.ret.b]})
        M2 == is_remounted(M1)
    IN  Then(assert_get_prop(M2, "ro.product.device"),
             LAMBDA x : {[x EXCEPT !.adb.device_name = x.ret.s]})

\* ADBSession.refresh_device_state
base_refresh_device_state(M) ==
    LET M1 == Then(is_root(M), LAMBDA x : {[x EXCEPT !.adb.root = x.ret.b]})
        M2 == Then(is_remounted(M1), LAMBDA x : {[x EXCEPT !.adb.remounted = x.ret.b]})
    IN  Then(assert_get_prop(M2, "ro.product.device"),
             LAMBDA x : {[x EXCEPT !.adb.device_name = x.ret.s]})

-----------------------------------------------------------------------------
(* NeoADBSession *)

\* DeviceType(self.device_name): Enum lookup by value
DeviceType(M) ==
    Then(M, LAMBDA x :
        {IF x.adb.device_name \notin DeviceTypeValues THEN Raise(x, ValueError)
         ELSE [x EXCEPT !.ret.s = x.adb.device_name]})

\* BoardType(value): Enum lookup by value, the value being x.ret.i
BoardType(M) ==
    Then(M, LAMBDA x :
        {IF x.ret.i \notin BoardTypeValues THEN Raise(x, ValueError)
         ELSE [x EXCEPT !.ret.s = BoardTypeMember(x.ret.i)]})

\* the try block with the placeholder of one family for both
resolve_identity_one_placeholder(M) ==
    Then(Then(DeviceType(M), LAMBDA x : {[x EXCEPT !.adb.device_type = x.ret.s]}),
         LAMBDA y :
            IF y.adb.root
            THEN Then(BoardType(assert_file_int({y}, bt_file)),
                      LAMBDA z : {[z EXCEPT !.adb.board_type = z.ret.s]})
            ELSE {[y EXCEPT !.adb.board_type = "SN_UNKNOWN"]})

\* the try block of NeoADBSession.refresh_device_state
resolve_identity(M) ==
    Then(Then(DeviceType(M), LAMBDA x : {[x EXCEPT !.adb.device_type = x.ret.s]}),
         LAMBDA y :
            IF y.adb.root
            THEN Then(BoardType(assert_file_int({y}, bt_file)),
                      LAMBDA z : {[z EXCEPT !.adb.board_type = z.ret.s]})
            ELSE {[y EXCEPT !.adb.board_type =
                      IF y.adb.device_type = HAMMERHEAD THEN "SN_UNKNOWN"
                      ELSE "HN_UNKNOWN"]})

refresh_device_state(M) ==
    LET M1 == base_refresh_device_state(M)
        M2 == Then(is_factory_mode(M1),
                   LAMBDA x : {[x EXCEPT !.adb.factory_mode = x.ret.b]})
        M3 == assert_log_prop(M2, "ro.product.device")
        M4 == assert_log_prop(M3, "ro.build.flavor")
        M5 == assert_log_prop(M4, "ro.build.fingerprint")
        M6 == assert_log_shell_command(M5, <<"uname", "-a">>)
        M7 == Then(M6, LAMBDA x :
                  IF x.adb.root
                  THEN assert_log_shell_command(
                           assert_log_shell_command({x}, <<"sha1sum", golden_bin>>),
                           <<"stat", "-c", "%s", golden_bin>>)
                  ELSE {x})
    IN  Except(resolve_identity(M7), KeyError, ADBAssertionError)

reboot_to_fastboot(M) ==
    LET M1 == prompt_user_validate(M, "Initiate device reset")
        M2 == run_command(M1, <<"reboot", "bootloader">>)
    IN  prompt_user_timed_process(M2, "verify device is in 'fastboot'")

\* set_factory_mode that writes the flag before it waits for the device
set_factory_mode_flag_before_wait(M, factory_mode) ==
    LET M1 == reboot_to_fastboot(M)
        M2 == run_fastboot_command(M1, <<"oem", IF factory_mode THEN "enable-factory-mode"
                                                ELSE "disable-factory-mode">>)
        M3 == run_fastboot_command(M2, <<"reboot">>)
        M4 == Then(M3, LAMBDA x : {[x EXCEPT !.adb.factory_mode = factory_mode]})
    IN  wait_for_device(M4, TRUE)

\* set_factory_mode that records factory mode whatever the target
set_factory_mode_ignores_target(M, factory_mode) ==
    LET M1 == reboot_to_fastboot(M)
        M2 == run_fastboot_command(M1, <<"oem", IF factory_mode THEN "enable-factory-mode"
                                                ELSE "disable-factory-mode">>)
        M3 == run_fastboot_command(M2, <<"reboot">>)
    IN  Then(wait_for_device(M3, TRUE),
             LAMBDA x : {[x EXCEPT !.adb.factory_mode = TRUE]})

set_factory_mode(M, factory_mode) ==
    LET M1 == reboot_to_fastboot(M)
        M2 == run_fastboot_command(M1,
                  <<"oem", IF factory_mode THEN "enable-factory-mode"
                           ELSE "disable-factory-mode">>)
        M3 == run_fastboot_command(M2, <<"reboot">>)
    IN  Then(wait_for_device(M3, TRUE),
             LAMBDA x : {[x EXCEPT !.adb.factory_mode = factory_mode]})

\* assert_factory_mode without the early return on the cached flag
assert_factory_mode_always_transitions(M) ==
    set_factory_mode(assert_root(M), TRUE)

assert_factory_mode(M) ==
    Then(assert_root(M), LAMBDA x :
        IF x.adb.factory_mode THEN {x} ELSE set_factory_mode({x}, TRUE))

assert_oem_device_info(M) ==
    Then(M, LAMBDA x :
        IF x.adb.have_oem_device_info THEN {x}
        ELSE LET M1 == reboot_to_fastboot({x})
                 M2 == result_assert_succeeded(
                           run_fastboot_command(M1, <<"oem", "device-info">>))
                 M3 == run_fastboot_command(M2, <<"reboot">>)
             IN  wait_for_device(M3, FALSE))

\* assert_disable_vendor_MCS that clears the flag before it stops the services
assert_disable_vendor_MCS_flag_first(M) ==
    Then(M, LAMBDA x :
        IF ~x.adb.vendor_mcs_enabled THEN {x}
        ELSE LET M1 == assert_root({x})
                 M2 == assert_set_selinux_enforcing(M1, TRUE)
                 M3 == Then(M2, LAMBDA y : {[y EXCEPT !.adb.vendor_mcs_enabled = FALSE]})
                 M4 == assert_ctl_stop(M3, "captureengineservice")
             IN  assert_ctl_stop(M4, "vendor.camera-provider-2-7"))

assert_disable_vendor_MCS(M) ==
    Then(M, LAMBDA x :
        IF ~x.adb.vendor_mcs_enabled THEN {x}
        ELSE LET M1 == assert_root({x})
                 M2 == assert_set_selinux_enforcing(M1, TRUE)
                 M3 == assert_ctl_stop(M2, "captureengineservice")
                 M4 == assert_ctl_stop(M3, "vendor.camera-provider-2-7")
             IN  Then(M4, LAMBDA y : {[y EXCEPT !.adb.vendor_mcs_enabled = FALSE]}))

assert_enable_vendor_MCS(M) ==
    LET M1 == assert_root(M)
        M2 == assert_set_selinux_enforcing(M1, TRUE)
        M3 == assert_ctl_start(M2, "captureengineservice")
        M4 == assert_ctl_start(M3, "vendor.camera-provider-2-7")
    IN  Then(M4, LAMBDA y : {[y EXCEPT !.adb.vendor_mcs_enabled = TRUE]})

assert_camcapture(M) ==
    assert_succeeded(assert_disable_vendor_MCS(M), <<"camcapture", "-c", "0">>)

-----------------------------------------------------------------------------
(* Binding *)

\* A serial number is a sequence of characters; \w takes letters, digits
\* and the underscore.
WordChars == {"A", "B", "e", "5", "7", "_"}
IsWord(w) == Len(w) > 0 /\ \A i \in 1..Len(w) : w[i] \in WordChars

\* stdout of 'adb devices': the header line, then one line per device, the
\* serial number and the status with a tab between them
ListHeader == <<"List of devices attached">>
Entry(serial, status) == <<serial, status>>

\* re.search(r'^(\w+)\s+device', stdout, re.MULTILINE): the first line
\* that is a word, white space and a text that begins with 'device'; of the
\* statuses adb prints only 'device' does.  The serial has no white space
\* in it, so the word is all of it.
ReadyLine(line) == Len(line) = 2 /\ IsWord(line[1]) /\ line[2] = "device"
search_serial(out) ==
    IF \E i \in 1..Len(out) : ReadyLine(out[i])
    THEN [absent |-> FALSE,
          val |-> out[CHOOSE i \in 1..Len(out) :
                        ReadyLine(out[i]) /\ \A j \in 1..(i - 1) : ~ReadyLine(out[j])][1]]
    ELSE [absent |-> TRUE, val |-> <<>>]

MsgNoDevices == "'adb devices' shows no connected devices available to run tests"

\* run_adb_command: the adb server answers with the listing, or the
\* process ends as any command can
run_adb_command(M, cmd, listing) ==
    Then(M, LAMBDA x :
        UNION { { Issue(x, <<"adb">> \o cmd, r, ending) : ending \in Endings(x, r) } :
                r \in {Reply(x.dev, 0, listing)} })

bind_serial(M, device_serial) ==
    refresh_device_state(
        Then(M, LAMBDA x : {[x EXCEPT !.adb.device_serial = device_serial]}))

\* result and re_result are locals of the method: nothing of the listing
\* is kept once the serial number has been taken from it
bind_with_first_device(M, listing) ==
    LET M1 == result_assert_succeeded(run_adb_command(M, <<"devices">>, listing))
        M2 == Then(M1, LAMBDA x :
                  {IF \E i \in 1..Len(x.res.out) : x.res.out[i] = ListHeader
                   THEN [x EXCEPT !.ret.serial = search_serial(x.res.out)]
                   ELSE Fail(x, MsgMatch)})
    IN  Then(M2, LAMBDA x :
            LET y == [x EXCEPT !.res = NewResult(x.res.rc, <<>>)]
            IN  IF x.ret.serial.absent THEN {Fail(y, MsgNoDevices)}
                ELSE bind_serial({y}, x.ret.serial.val))

-----------------------------------------------------------------------------
(* The state machine *)

\* class attributes of ADBSession and NeoADBSession
ClassDefaults ==
    [root |-> FALSE, remounted |-> FALSE, factory_mode |-> FALSE,
     vendor_mcs_enabled |-> TRUE, have_oem_device_info |-> FALSE,
     device_serial |-> <<>>, device_name |-> Unset, device_type |-> Unset, board_type |-> Unset]

\* the devices on the bench: name and platform_subtype_id
Identities ==
    { <<"hammerhead", "161">>, <<"greatwhite", "999">>, <<"walleye", "160">> }

Idle(a, d) ==
    [op |-> "idle", arg |-> FALSE, log |-> <<>>, err |-> NoErr, pre |-> a, predev |-> d]

\* the machine a call on the session object a starts on
Machine(a, d, att) ==
    [adb |-> a, dev |-> d, log |-> <<>>, err |-> NoErr,
     res |-> NewResult(0, <<>>), ret |-> NoRet, msg |-> "",
     faults |-> 0, attended |-> att]

\* a call has ended (returned or raised) on machine x: the state it leaves
Done(op, arg, pre, x) ==
    /\ adb' = x.adb
    /\ dev' = x.dev
    /\ obs' = [op |-> op, arg |-> arg, log |-> x.log, err |-> x.err,
               pre |-> pre, predev |-> dev]

Init ==
    /\ adb = ClassDefaults
    /\ \E id \in Identities, r, f, e \in BOOLEAN :
          dev = [mode |-> "android", root |-> r, remounted |-> FALSE, factory |-> f,
                 enforcing |-> e, running |-> VendorServices,
                 name |-> id[1], board |-> id[2]]
    /\ attended \in BOOLEAN
    /\ bound = FALSE
    /\ result = NewResult(0, <<>>)
    /\ obs = Idle(adb, dev)

\* the serial number a test session is created for
GivenSerial == <<"A", "5">>

\* ADBTestSession.__init__: createADBSession, bind_serial
Bind ==
    /\ ~bound /\ obs.op = "idle"
    /\ \E x \in bind_serial({Machine(ClassDefaults, dev, attended)}, GivenSerial) :
          /\ Done("bind", FALSE, ClassDefaults, x)
          /\ bound' = Ok(x)
    /\ UNCHANGED <<attended, result>>

\* a method of the bound session is called and ends on a machine of M
Call(op, arg, M) ==
    /\ \E x \in M : Done(op, arg, adb, x)
    /\ UNCHANGED <<attended, bound, result>>

Ready == bound /\ obs.op = "idle"
Here == {Machine(adb, dev, attended)}

RefreshDeviceState ==
    Ready /\ Call("refresh_device_state", FALSE, refresh_device_state(Here))
AssertRoot ==
    Ready /\ Call("assert_root", FALSE, assert_root(Here))
Unroot ==
    Ready /\ Call("unroot", FALSE, unroot(Here))
AssertRemount ==
    Ready /\ Call("assert_remount", FALSE, assert_remount(Here))
WaitForDevice ==
    Ready /\ \E wait_root \in BOOLEAN :
        Call("wait_for_device", wait_root, wait_for_device(Here, wait_root))
SetFactoryMode ==
    Ready /\ \E factory_mode \in BOOLEAN :
        Call("set_factory_mode", factory_mode, set_factory_mode(Here, factory_mode))
AssertFactoryMode ==
    Ready /\ Call("assert_factory_mode", FALSE, assert_factory_mode(Here))
AssertOemDeviceInfo ==
    Ready /\ Call("assert_oem_device_info", FALSE, assert_oem_device_info(Here))
AssertDisableVendorMCS ==
    Ready /\ Call("assert_disable_vendor_MCS", FALSE, assert_disable_vendor_MCS(Here))
AssertEnableVendorMCS ==
    Ready /\ Call("assert_enable_vendor_MCS", FALSE, assert_enable_vendor_MCS(Here))
AssertCamcapture ==
    Ready /\ Call("assert_camcapture", FALSE, assert_camcapture(Here))

\* the caller goes on to its next statement; a session whose constructor
\* raised is dropped and the next one is created from the class attributes
Return ==
    /\ obs.op # "idle"
    /\ adb' = IF bound THEN adb ELSE ClassDefaults
    /\ obs' = Idle(adb', dev)
    /\ UNCHANGED <<dev, attended, bound, result>>

Next ==
    \/ Bind
    \/ RefreshDeviceState
    \/ AssertRoot
    \/ Unroot
    \/ AssertRemount
    \/ WaitForDevice
    \/ SetFactoryMode
    \/ AssertFactoryMode
    \/ AssertOemDeviceInfo
    \/ AssertDisableVendorMCS
    \/ AssertEnableVendorMCS
    \/ AssertCamcapture
    \/ Return

Spec == Init /\ [][Next]_vars

-----------------------------------------------------------------------------
(* The creation of a test session on a bench of devices *)

MaxDevices == 2     \* devices that 'adb devices' lists

Serials == { <<"A", "5">>, <<"e", "-", "5">>, <<"B", "_", "7">> }
Statuses == {"device", "offline", "unauthorized"}
Entries == { Entry(serial, status) : serial \in Serials, status \in Statuses }
\* the listings: no serial twice
EntryLists ==
    UNION { { es \in [1..n -> Entries] :
                \A i, j \in 1..n : es[i][1] = es[j][1] => i = j } : n \in 0..MaxDevices }
Listings == { <<ListHeader>> \o es : es \in EntryLists } \cup { <<>> }

\* the device the session gets is rooted, remounted or in factory mode
\* as an earlier session left it
InitBench ==
    /\ adb = ClassDefaults
    /\ \E id \in Identities, r, m, f \in BOOLEAN :
          dev = [mode |-> "android", root |-> r, remounted |-> m, factory |-> f,
                 enforcing |-> TRUE, running |-> VendorServices,
                 name |-> id[1], board |-> id[2]]
    /\ attended = TRUE
    /\ bound = FALSE
    /\ result = NewResult(0, <<>>)
    /\ obs = Idle(adb, dev)

\* ADBTestSession.__init__ without a serial: bind_with_first_device
BindWithFirstDevice ==
    /\ ~bound /\ obs.op = "idle"
    /\ \E listing \in Listings :
          \E x \in bind_with_first_device({Machine(ClassDefaults, dev, attended)}, listing) :
              /\ Done("bind_with_first_device", listing, ClassDefaults, x)
              /\ bound' = Ok(x)
    /\ UNCHANGED <<attended, result>>

NextBind ==
    \/ Bind
    \/ BindWithFirstDevice
    \/ Return

BindSpec == InitBench /\ [][NextBind]_vars

-----------------------------------------------------------------------------
(* Constructing a NeoADBTestSession.  The host is the machine the tests    *)
(* run on: the tools that are installed on it, and the module globals      *)
(* ADB_PATH, FASTBOOT_PATH and ONEWIRE_PATH (TRUE for a path, FALSE for    *)
(* None), which outlive a session.  h.log is what the constructor has run  *)
(* so far and h.err the exception that is propagating.                     *)

InitializationError == "InitializationError"
FileNotFoundError == "FileNotFoundError"

\* A tool passes its probe ("ok"), is an executable that fails it
\* ("broken"), or is no executable at any of the candidate paths
ToolStates == {"ok", "broken", "missing"}

\* run_command(cmd=[path, '--version']) on the host
Probe(h, tool) ==
    [h EXCEPT !.log = Append(@, [ev |-> "probe", cmd |-> <<tool>>,
                                 rc |-> IF h.tools[tool] = "ok" THEN 0 ELSE 1])]

\* adb_exists_at_path, fastboot_exists_at_path, onewire_exists_at_path over
\* the candidate paths: TRUE iff an executable exists and answers its probe
exists_at_path(h, tool) ==
    IF h.tools[tool] = "missing" THEN h ELSE Probe(h, tool)

find_platform_utils(h) ==
    IF h.err # NoErr \/ h.ADB_PATH THEN h
    ELSE LET h1 == [exists_at_path(h, "adb") EXCEPT !.ADB_PATH = (h.tools.adb = "ok")]
         IN  IF ~h1.ADB_PATH THEN Raise(h1, InitializationError)
             ELSE LET h2 == [exists_at_path(h1, "fastboot") EXCEPT
                                !.FASTBOOT_PATH = (h.tools.fastboot = "ok")]
                  IN  IF ~h2.FASTBOOT_PATH THEN Raise(h2, InitializationError)
                      ELSE h2

\* run_display_tool(['--help']): subprocess.run raises FileNotFoundError
\* when the program is no executable
run_display_tool(h, tool) ==
    IF h.tools[tool] = "missing" THEN Raise(h, FileNotFoundError) ELSE Probe(h, tool)

find_neo_utils(h) ==
    IF h.err # NoErr \/ h.ONEWIRE_PATH THEN h
    ELSE LET h1 == [exists_at_path(h, "onewire") EXCEPT
                       !.ONEWIRE_PATH = (h.tools.onewire = "ok")]
             h2 == run_display_tool(h1, "python")
             h3 == run_display_tool(h2, "display")
         IN  IF ~h1.ONEWIRE_PATH THEN Raise(h1, InitializationError)
             ELSE IF h2.err # NoErr \/ h.tools.python = "ok" THEN h2
             ELSE IF h3.err # NoErr \/ h.tools.display = "ok" THEN h3
             ELSE Raise(h3, InitializationError)

\* what 'adb devices' prints on this bench
BenchListing == <<ListHeader, Entry(GivenSerial, "device")>>

\* ADBTestSession.__init__ after super().__init__: createADBSession, then
\* bind_with_first_device() for no device_serial, else bind_serial
adb_test_session_init(M, serial_given) ==
    IF serial_given THEN bind_serial(M, GivenSerial)
    ELSE bind_with_first_device(M, BenchListing)

Hosts ==
    [tools : [adb : ToolStates, fastboot : ToolStates, onewire : ToolStates,
              python : {"ok", "broken"}, display : ToolStates],
     ADB_PATH : {FALSE}, FASTBOOT_PATH : {FALSE}, ONEWIRE_PATH : {FALSE},
     log : {<<>>}, err : {NoErr}]

Constructing(op, arg, host) ==
    [op |-> op, arg |-> arg, log |-> host.log, err |-> host.err, host |-> host]

InitSetup ==
    /\ adb = ClassDefaults
    /\ \E r \in BOOLEAN :
          dev = [mode |-> "android", root |-> r, remounted |-> FALSE,
                 factory |-> FALSE, enforcing |-> TRUE, running |-> VendorServices,
                 name |-> HAMMERHEAD, board |-> "161"]
    /\ attended \in BOOLEAN
    /\ bound = FALSE
    /\ result = NewResult(0, <<>>)
    /\ \E h \in Hosts : obs = Constructing("idle", FALSE, h)

\* NeoADBTestSession.__init__: TestSession.__init__ finds the platform
\* tools, ADBTestSession.__init__ creates and binds the ADB session, and
\* then find_neo_utils() is called
NewNeoADBTestSession ==
    /\ ~bound /\ obs.op = "idle"
    /\ \E serial_given \in BOOLEAN :
          LET h1 == find_platform_utils(obs.host)
          IN  IF h1.err # NoErr
              THEN /\ obs' = Constructing("NeoADBTestSession", serial_given, h1)
                   /\ UNCHANGED <<adb, dev, bound>>
              ELSE \E x \in adb_test_session_init(
                                {Machine(ClassDefaults, dev, attended)}, serial_given) :
                      LET h2 == [h1 EXCEPT !.log = @ \o x.log, !.err = x.err]
                          h3 == find_neo_utils(h2)
                      IN  /\ obs' = Constructing("NeoADBTestSession", serial_given, h3)
                          /\ adb' = x.adb
                          /\ dev' = x.dev
                          /\ bound' = Ok(h3)
    /\ UNCHANGED <<attended, result>>

\* the caller has the session, or, the constructor having raised, is left
\* with the module globals and may construct again
Constructed ==
    /\ obs.op # "idle"
    /\ adb' = IF bound THEN adb ELSE ClassDefaults
    /\ obs' = Constructing("idle", FALSE, [obs.host EXCEPT !.log = <<>>, !.err = NoErr])
    /\ UNCHANGED <<dev, attended, bound, result>>

NextSetup ==
    \/ NewNeoADBTestSession
    \/ Constructed

SetupSpec == InitSetup /\ [][NextSetup]_vars

-----------------------------------------------------------------------------
(* A test that calls the two interaction points of its TestSession.  A     *)
(* call runs up to input() or time.sleep(timeout_secs) and is blocked      *)
(* there until the user presses ENTER or the seconds have gone by.         *)

MaxSecs == 5        \* timeout_secs, and the seconds a sleep can last

Reasons ==
    { "Initiate device reset", "verify device is in 'fastboot'", "Check the LED" }

\* the call of a primitive: where it is (pc), the seconds slept so far and
\* whether the user has pressed ENTER
Prompting(op, text, secs, pc, elapsed, acked, err) ==
    [op |-> op, arg |-> text, secs |-> secs, pc |-> pc, elapsed |-> elapsed,
     acked |-> acked, err |-> err]
NotPrompting == Prompting("idle", "", 0, "idle", 0, FALSE, NoErr)

InitPrompt ==
    /\ adb = ClassDefaults
    /\ dev = [mode |-> "android", root |-> FALSE, remounted |-> FALSE,
              factory |-> FALSE, enforcing |-> TRUE, running |-> VendorServices,
              name |-> HAMMERHEAD, board |-> "161"]
    /\ attended \in BOOLEAN
    /\ bound = FALSE
    /\ result = NewResult(0, <<>>)
    /\ obs = NotPrompting

\* the primitive has run on machine x up to the call it blocks in, if any
Entered(op, text, secs, x) ==
    /\ obs' = Prompting(op, text, secs,
                        IF x.err # NoErr \/ x.log = <<>> THEN "returned"
                        ELSE x.log[Len(x.log)].ev,
                        0, FALSE, x.err)
    /\ UNCHANGED <<adb, dev, attended, bound, result>>

PromptUserTimedProcess ==
    /\ obs.op = "idle"
    /\ \E wait_reason \in Reasons, timeout_secs \in 0..MaxSecs :
          \E x \in prompt_user_timed_process({Machine(adb, dev, attended)}, wait_reason) :
              Entered("prompt_user_timed_process", wait_reason, timeout_secs, x)

PromptUserValidate ==
    /\ obs.op = "idle"
    /\ \E confirm_item \in Reasons :
          \E x \in prompt_user_validate({Machine(adb, dev, attended)}, confirm_item) :
              Entered("prompt_user_validate", confirm_item, 0, x)

\* input() returns: the user has pressed ENTER
PressEnter ==
    /\ obs.pc = "input"
    /\ obs' = [obs EXCEPT !.pc = "returned", !.acked = TRUE]
    /\ UNCHANGED <<adb, dev, attended, bound, result>>

\* a second of time.sleep(timeout_secs) goes by
Tick ==
    /\ obs.pc = "sleep" /\ obs.elapsed < obs.secs
    /\ obs' = [obs EXCEPT !.elapsed = @ + 1]
    /\ UNCHANGED <<adb, dev, attended, bound, result>>

\* time.sleep(timeout_secs) returns
Wake ==
    /\ obs.pc = "sleep" /\ obs.elapsed = obs.secs
    /\ obs' = [obs EXCEPT !.pc = "returned"]
    /\ UNCHANGED <<adb, dev, attended, bound, result>>

\* the test goes on to its next statement
Proceed ==
    /\ obs.pc = "returned"
    /\ obs' = NotPrompting
    /\ UNCHANGED <<adb, dev, attended, bound, result>>

NextPrompt ==
    \/ PromptUserTimedProcess
    \/ PromptUserValidate
    \/ PressEnter
    \/ Tick
    \/ Wake
    \/ Proceed

PromptSpec == InitPrompt /\ [][NextPrompt]_vars

-----------------------------------------------------------------------------
(* A caller that holds one CommandResult and calls its methods on it *)

MaxLines == 2       \* lines of stdout

ExitCodes == {0, 1, 255, 0 - 9}
Lines ==
    { "", " ", "abc", " abc ", "7", " 7 ", "-7", "x7", "{}", "[]",
      "{\"status\":\"Success\"}", "{\"status\":\"Fail\"}" }
Stdouts == UNION { [1..n -> Lines] : n \in 0..MaxLines }
Patterns == { [lit |-> "abc", group |-> g] : g \in {"none", "text", "unmatched"} }

MaxPieces == 5      \* pieces of stderr
Pieces == Blanks \cup {"a=1", "a=2", "b=1", "warn"}
\* two runs of the same kind side by side would be one run
Stderrs ==
    { text \in UNION { [1..n -> Pieces] : n \in 0..MaxPieces } :
        \A i \in 1..(Len(text) - 1) :
            (text[i] \in Blanks) # (text[i + 1] \in Blanks) }

\* the call that has just ended on the result: res is the result before it
Called(op, arg, err, msg, ret, res) ==
    [op |-> op, arg |-> arg, err |-> err, msg |-> msg, ret |-> ret, res |-> res]

InitResult ==
    /\ adb = ClassDefaults
    /\ dev = [mode |-> "android", root |-> FALSE, remounted |-> FALSE,
              factory |-> FALSE, enforcing |-> TRUE, running |-> VendorServices,
              name |-> HAMMERHEAD, board |-> "161"]
    /\ attended = TRUE
    /\ bound = FALSE
    /\ \/ \E rc \in ExitCodes, out \in Stdouts : result = NewResult(rc, out)
       \/ \E rc \in {0, 1}, text \in Stderrs :
              result = [NewResult(rc, <<>>) EXCEPT !.stderr = text]
    /\ obs = Called("idle", FALSE, NoErr, "", NoRet, result)

\* the machine of a call on the result
OnResult == {[Machine(adb, dev, attended) EXCEPT !.res = result]}

ResultCall(op, arg, M) ==
    /\ \E x \in M :
          /\ obs' = Called(op, arg, x.err, x.msg, x.ret, result)
          /\ result' = x.res
    /\ UNCHANGED <<adb, dev, attended, bound>>

Succeeded ==
    ResultCall("succeeded", FALSE,
               {[x EXCEPT !.ret.b = succeeded(x.res)] : x \in OnResult})
AssertSucceeded ==
    ResultCall("assert_succeeded", FALSE, result_assert_succeeded(OnResult))
Search ==
    \E pattern \in Patterns : ResultCall("search", pattern, search(OnResult, pattern))
AssertSearch ==
    \E pattern \in Patterns :
        ResultCall("assert_search", pattern, result_assert_search(OnResult, pattern))
AssertString ==
    ResultCall("assert_string", FALSE, result_assert_string(OnResult))
AssertInt ==
    ResultCall("assert_int", FALSE, result_assert_int(OnResult))
AssertJson ==
    ResultCall("assert_json", FALSE, assert_json(OnResult))
AssertStderrKeyvalue ==
    ResultCall("assert_stderr_keyvalue", "key=value",
               assert_stderr_keyvalue(OnResult, "key=value"))
AssertMfgSucceeded ==
    ResultCall("assert_mfg_succeeded", FALSE, assert_mfg_succeeded(OnResult))

NextResult ==
    \/ Succeeded
    \/ AssertSucceeded
    \/ Search
    \/ AssertSearch
    \/ AssertString
    \/ AssertInt
    \/ AssertJson
    \/ AssertStderrKeyvalue
    \/ AssertMfgSucceeded

ResultSpec == InitResult /\ [][NextResult]_vars

-----------------------------------------------------------------------------
(* Reading the log of a call *)

CmdRoot == <<"adb", "root">>
CmdRemount == <<"adb", "remount">>
CmdRebootBootloader == <<"adb", "reboot", "bootloader">>
CmdFastbootReboot == <<"fastboot", "reboot">>
CmdWaitRoot == <<"adb", "wait-for-device", "root">>
CmdCmdline == <<"adb", "shell", "cat", "/proc/cmdline">>
CmdGetenforce == <<"adb", "shell", "getenforce">>
CmdSetenforce1 == <<"adb", "shell", "setenforce", "1">>
CmdOem(factory_mode) ==
    <<"fastboot", "oem", IF factory_mode THEN "enable-factory-mode"
                         ELSE "disable-factory-mode">>
CmdCtl(what, service) == <<"adb", "shell", "setprop", what, service>>

\* positions of the log where cmd was issued
At(log, cmd) == { i \in 1..Len(log) : IsCmd(log[i]) /\ log[i].cmd = cmd }
Count(log, cmd) == Cardinality(At(log, cmd))
\* the command at position i exited with code 0
ExitedZero(log, i) == log[i].ev = "run" /\ log[i].rc = 0
\* the call touched the device: a command, a prompt or a wait
NothingIssued(log) == log = <<>>
\* what was issued, without how it ended
Steps(log) ==
    [i \in 1..Len(log) |-> <<IF IsCmd(log[i]) THEN "cmd" ELSE log[i].ev, log[i].cmd>>]
IsPrefix(s, t) == Len(s) <= Len(t) /\ \A i \in 1..Len(s) : s[i] = t[i]
Cmd(c) == <<"cmd", c>>

-----------------------------------------------------------------------------
(* C1: assert_root called twice in succession issues 'adb root' at most     *)
(* once: after a first call that returned, a second call issues no command  *)
(* and changes no cached attribute.                                         *)
C1_AssertRootIdempotent ==
    (obs.op = "assert_root" /\ obs.err = NoErr) =>
        \A y \in assert_root(Here) :
            /\ NothingIssued(y.log)
            /\ y.err = NoErr
            /\ y.adb = adb
            /\ Count(obs.log, CmdRoot) + Count(y.log, CmdRoot) <= 1

\* a first call that had to escalate has returned
C1_Witness ==
    /\ obs.op = "assert_root" /\ obs.err = NoErr
    /\ ~obs.pre.root /\ Count(obs.log, CmdRoot) = 1

(* C10: assert_remount issues nothing when remounted is cached; otherwise   *)
(* it issues exactly one remount command and sets remounted iff the command *)
(* exited with 0; it never issues 'adb root' and never changes any other    *)
(* attribute; a call after a successful one issues nothing.                 *)
C10_AssertRemount ==
    obs.op = "assert_remount" =>
        /\ obs.pre.remounted =>
              NothingIssued(obs.log) /\ obs.err = NoErr /\ adb = obs.pre
        /\ ~obs.pre.remounted =>
              /\ Steps(obs.log) = <<Cmd(CmdRemount)>>
              /\ adb.remounted <=> ExitedZero(obs.log, 1)
              /\ adb.remounted <=> obs.err = NoErr
        /\ Count(obs.log, CmdRoot) = 0
        /\ adb = [obs.pre EXCEPT !.remounted = adb.remounted]
        /\ obs.err = NoErr =>
              \A y \in assert_remount(Here) : NothingIssued(y.log) /\ y.adb = adb

\* the remount command was issued by a session whose cached root is false,
\* and it succeeded
C10_Witness ==
    /\ obs.op = "assert_remount" /\ ~obs.pre.remounted
    /\ ~obs.pre.root /\ adb.remounted

\* what assert_root issues on a session whose attributes are a
RootSteps(a) == IF a.root THEN <<>> ELSE <<Cmd(CmdRoot), Cmd(CmdCmdline)>>

\* what the transition to factory_mode issues, as the code orders it
PromptReset == <<"input", <<"Initiate device reset">>>>
PromptVerify(att) == <<IF att THEN "input" ELSE "sleep", <<"verify device is in 'fastboot'">>>>
TransitionSteps(att, factory_mode) ==
    (IF att THEN <<PromptReset>> ELSE <<>>)
    \o << Cmd(CmdRebootBootloader), PromptVerify(att), Cmd(CmdOem(factory_mode)),
          Cmd(CmdFastbootReboot), Cmd(CmdWaitRoot) >>

\* reboot cycles through the flashing transport that a call started
Cycles(log) == Count(log, CmdRebootBootloader)

(* C2 as claimed: whenever the cached factory_mode is already true,         *)
(* assert_factory_mode issues nothing and changes no cached attribute.      *)
C2_Original ==
    (obs.op = "assert_factory_mode" /\ obs.pre.factory_mode) =>
        NothingIssued(obs.log) /\ adb = obs.pre

(* C2 amended: whenever the cached root and the cached factory_mode are     *)
(* both true, assert_factory_mode returns without issuing anything and      *)
(* changes no cached attribute; with cached root false it escalates first,  *)
(* whatever the cached factory_mode.                                        *)
C2_Amended ==
    obs.op = "assert_factory_mode" =>
        /\ (obs.pre.root /\ obs.pre.factory_mode) =>
              NothingIssued(obs.log) /\ adb = obs.pre /\ obs.err = NoErr
        /\ ~obs.pre.root => Steps(obs.log)[1] = Cmd(CmdRoot)

C2_Witness ==
    /\ obs.op = "assert_factory_mode"
    /\ obs.pre.root /\ obs.pre.factory_mode /\ NothingIssued(obs.log)

(* C3 as claimed: in a transition started by assert_factory_mode the human  *)
(* confirmation (attended) or the fixed wait (unattended) comes before the  *)
(* reboot-to-flashing-mode command.                                         *)
C3_Original ==
    (obs.op = "assert_factory_mode" /\ Cycles(obs.log) > 0) =>
        \E i \in 1..Len(obs.log) :
            /\ obs.log[i].ev \in {"input", "sleep"}
            /\ \A j \in At(obs.log, CmdRebootBootloader) : i < j

(* C3 amended: a transition started by assert_factory_mode issues, in this  *)
(* order and stopping only at a step that raises: privilege                 *)
(* escalation unless root is cached; attended, the confirmation prompt;     *)
(* the reboot-to-flashing-mode command; then the second prompt (attended)   *)
(* or the fixed wait (unattended); the mode-set command; the flashing-mode  *)
(* reboot; wait-for-device with root.  The cached factory_mode is set only  *)
(* when wait-for-device, the last step, exited with 0.                      *)
C3_Amended ==
    (obs.op = "assert_factory_mode" /\ Len(obs.log) > Len(RootSteps(obs.pre))) =>
        LET expected == RootSteps(obs.pre) \o TransitionSteps(attended, TRUE)
        IN  /\ IsPrefix(Steps(obs.log), expected)
            /\ obs.err = NoErr => Steps(obs.log) = expected
            /\ adb.root /\ (obs.pre.root \/ ExitedZero(obs.log, 1))
            /\ adb.factory_mode =>
                  /\ obs.err = NoErr
                  /\ obs.log[Len(obs.log)].cmd = CmdWaitRoot
                  /\ ExitedZero(obs.log, Len(obs.log))

\* an unattended transition that ran to its end
C3_Witness ==
    /\ obs.op = "assert_factory_mode" /\ obs.err = NoErr
    /\ ~attended /\ ~obs.pre.root /\ Cycles(obs.log) = 1

(* C4 as claimed: assert_factory_mode then set_factory_mode(False), both    *)
(* returning, ends with factory_mode false, and each leg made exactly one   *)
(* reboot cycle when the cached flag differed from its target.              *)
C4_Original ==
    (obs.op = "assert_factory_mode" /\ obs.err = NoErr) =>
        /\ ~obs.pre.factory_mode => Cycles(obs.log) = 1
        /\ \A y \in set_factory_mode(Here, FALSE) :
              y.err = NoErr => ~y.adb.factory_mode /\ Cycles(y.log) = 1

(* C4 amended: the round trip ends with factory_mode false.  The leaving    *)
(* leg always makes exactly one reboot cycle.  The entering leg makes       *)
(* exactly one when the flag it decides on is false and none when it is     *)
(* true: that flag is the cached one if root was cached, and the one        *)
(* re-detected from the device after escalation if it was not.              *)
C4_Amended ==
    (obs.op = "assert_factory_mode" /\ obs.err = NoErr) =>
        /\ adb.factory_mode
        /\ Cycles(obs.log) = Count(obs.log, CmdFastbootReboot)
        /\ Cycles(obs.log) =
              IF (IF obs.pre.root THEN obs.pre.factory_mode ELSE obs.predev.factory)
              THEN 0 ELSE 1
        /\ \A y \in set_factory_mode(Here, FALSE) :
              y.err = NoErr =>
                  /\ ~y.adb.factory_mode
                  /\ Cycles(y.log) = 1 /\ Count(y.log, CmdFastbootReboot) = 1

\* the entering leg rebooted and the leaving leg can return
C4_Witness ==
    /\ obs.op = "assert_factory_mode" /\ obs.err = NoErr /\ Cycles(obs.log) = 1
    /\ \E y \in set_factory_mode(Here, FALSE) : y.err = NoErr /\ Cycles(y.log) = 1

(* C5: after an operation that reboots the device returns, a cached root or *)
(* remounted that is true is true of the device.                            *)
C5_CacheFollowsReboot ==
    ( /\ obs.op \in {"set_factory_mode", "assert_factory_mode", "assert_oem_device_info"}
      /\ Cycles(obs.log) > 0 /\ obs.err = NoErr ) =>
        /\ adb.root => dev.root
        /\ adb.remounted => dev.remounted

(* C6: a command of the factory-mode transition that exits with a non-zero  *)
(* code ends the operation with an error: it is the last command issued,    *)
(* and the cached factory_mode keeps its value.                             *)
TransitionCmds ==
    {CmdRebootBootloader, CmdOem(TRUE), CmdOem(FALSE), CmdFastbootReboot, CmdWaitRoot}
C6_TransitionAborts ==
    obs.op \in {"set_factory_mode", "assert_factory_mode"} =>
        \A i \in 1..Len(obs.log) :
            (obs.log[i].cmd \in TransitionCmds /\ obs.log[i].ev = "run"
                /\ obs.log[i].rc # 0) =>
                /\ obs.err # NoErr
                /\ i = Len(obs.log)
                /\ adb.factory_mode =
                      (IF obs.op = "set_factory_mode" THEN obs.pre.factory_mode ELSE FALSE)

(* C7: a refresh pass that meets a device name outside the known families,  *)
(* or reads a board revision outside the table, raises the configuration    *)
(* error and leaves every cached attribute as it was.                       *)
AllExitedZero(log) == \A i \in 1..Len(log) : ExitedZero(log, i)
MeetsUnmapped ==
    /\ AllExitedZero(obs.log)
    /\ Count(obs.log, <<"adb", "shell", "uname", "-a">>) = 1
    /\ adb.root => Count(obs.log, <<"adb", "shell", "stat", "-c", "%s", golden_bin>>) = 1
    /\ \/ dev.name \notin DeviceTypeValues
       \/ /\ Count(obs.log, <<"adb", "shell", "cat", bt_file>>) = 1
          /\ IntOf(dev.board) \notin BoardTypeValues
C7_UnmappedIsConfigurationError ==
    (obs.op \in {"bind", "refresh_device_state"} /\ MeetsUnmapped) =>
        obs.err = "ConfigurationError" /\ adb = obs.pre

(* C8: assert_disable_vendor_MCS with the cached flag false, and            *)
(* assert_enable_vendor_MCS with the cached flag true, issue nothing and    *)
(* change no cached attribute; assert_camcapture with the cached flag false *)
(* issues no service stop.                                                  *)
StopCmds == { CmdCtl("ctl.stop", s) : s \in VendorServices }
C8_VendorGatingIdempotent ==
    /\ (obs.op = "assert_disable_vendor_MCS" /\ ~obs.pre.vendor_mcs_enabled) =>
          NothingIssued(obs.log) /\ adb = obs.pre
    /\ (obs.op = "assert_enable_vendor_MCS" /\ obs.pre.vendor_mcs_enabled) =>
          NothingIssued(obs.log) /\ adb = obs.pre
    /\ (obs.op = "assert_camcapture" /\ ~obs.pre.vendor_mcs_enabled) =>
          \A i \in 1..Len(obs.log) : obs.log[i].cmd \notin StopCmds

(* C9: assert_disable_vendor_MCS with the cached flag true issues, in this  *)
(* order and stopping at the first command that fails: privilege escalation *)
(* unless root is cached; getenforce, and setenforce 1 unless the device    *)
(* answered Enforcing; ctl.stop of the two services.  Root is cached before *)
(* any service command, the flag becomes false exactly when the call        *)
(* returns, which is after both stops exited with 0, and nothing is issued  *)
(* to the flashing transport and no reboot.                                 *)
C9_DisableVendorMCS ==
    (obs.op = "assert_disable_vendor_MCS" /\ obs.pre.vendor_mcs_enabled) =>
        LET expected ==
                RootSteps(obs.pre) \o <<Cmd(CmdGetenforce)>>
                \o (IF obs.predev.enforcing THEN <<>> ELSE <<Cmd(CmdSetenforce1)>>)
                \o << Cmd(CmdCtl("ctl.stop", "captureengineservice")),
                      Cmd(CmdCtl("ctl.stop", "vendor.camera-provider-2-7")) >>
        IN  /\ IsPrefix(Steps(obs.log), expected)
            /\ \A i \in 1..(Len(obs.log) - 1) : ExitedZero(obs.log, i)
            /\ obs.err = NoErr => Steps(obs.log) = expected /\ AllExitedZero(obs.log)
            /\ adb.vendor_mcs_enabled <=> obs.err # NoErr
            /\ \A i \in 1..Len(obs.log) :
                  obs.log[i].cmd \in StopCmds =>
                      adb.root /\ (obs.pre.root \/ ExitedZero(obs.log, 1))
            /\ \A i \in 1..Len(obs.log) :
                  obs.log[i].cmd[1] # "fastboot" /\ obs.log[i].cmd # CmdRebootBootloader

\* the whole sequence ran: escalation, setenforce and both stops
C9_Witness ==
    /\ obs.op = "assert_disable_vendor_MCS" /\ obs.pre.vendor_mcs_enabled
    /\ ~obs.pre.root /\ ~obs.predev.enforcing
    /\ obs.err = NoErr /\ ~adb.vendor_mcs_enabled

-----------------------------------------------------------------------------
(* Binding (BindSpec) *)

\* the listing was fetched and has its header
Listed ==
    /\ obs.op = "bind_with_first_device"
    /\ Len(obs.log) >= 1 /\ ExitedZero(obs.log, 1)
    /\ obs.arg # <<>>
ReadyEntries == { i \in 1..Len(obs.arg) : Len(obs.arg[i]) = 2 /\ obs.arg[i][2] = "device" }
FirstReady == CHOOSE i \in ReadyEntries : \A j \in ReadyEntries : i <= j

(* C11: binding without a serial binds to the first entry of the listing    *)
(* whose status is 'device', whatever the listing; when no entry has that   *)
(* status it raises the configuration error, leaves the session without a   *)
(* serial and runs no refresh pass.                                         *)
C11_BindsFirstReady ==
    Listed =>
        IF ReadyEntries # {}
        THEN adb.device_serial = obs.arg[FirstReady][1]
        ELSE /\ obs.err = "ConfigurationError"
             /\ adb = ClassDefaults
             /\ Len(obs.log) = 1

(* C12: right after a successful bind the cached state is a snapshot of the *)
(* device: root iff the shell runs as uid 0, remounted iff the overlay is   *)
(* mounted, factory_mode iff root and the boot command line has the         *)
(* factory flag, and the identity resolved.                                 *)
C12_SnapshotAfterBind ==
    (obs.op \in {"bind", "bind_with_first_device"} /\ obs.err = NoErr) =>
        /\ bound
        /\ adb.root = dev.root
        /\ adb.remounted = dev.remounted
        /\ adb.factory_mode = (adb.root /\ dev.factory)
        /\ adb.device_serial # <<>>
        /\ adb.device_name = dev.name
        /\ adb.device_type = dev.name /\ dev.name \in DeviceTypeValues
        /\ adb.board_type =
              (IF adb.root THEN BoardTypeMember(IntOf(dev.board))
               ELSE IF dev.name = HAMMERHEAD THEN "SN_UNKNOWN" ELSE "HN_UNKNOWN")
        /\ dev = obs.predev

\* bound to the first device of a listing, the device rooted, remounted and
\* in factory mode
C12_Witness ==
    /\ obs.op = "bind_with_first_device" /\ obs.err = NoErr
    /\ adb.root /\ adb.remounted /\ adb.factory_mode

-----------------------------------------------------------------------------
(* Identity and timeouts (Spec) *)

CmdBoard == <<"adb", "shell", "cat", bt_file>>
CmdUname == <<"adb", "shell", "uname", "-a">>
CmdStat == <<"adb", "shell", "stat", "-c", "%s", golden_bin>>

\* the refresh pass got as far as the resolution of the identity
ReachedResolution ==
    /\ \E i \in At(obs.log, CmdUname) : ExitedZero(obs.log, i)
    /\ adb.root => \E i \in At(obs.log, CmdStat) : ExitedZero(obs.log, i)

(* C13: the resolution of the identity of a device with a known name: with  *)
(* cached root false it succeeds, does not read platform_subtype_id and     *)
(* sets board_type to SN_UNKNOWN for hammerhead and HN_UNKNOWN for          *)
(* greatwhite; with cached root true it reads platform_subtype_id and,      *)
(* the number read being in the table, sets board_type to its member.       *)
C13_IdentityResolution ==
    ( /\ obs.op \in {"bind", "refresh_device_state"}
      /\ ReachedResolution
      /\ adb.device_name \in DeviceTypeValues ) =>
        /\ adb.device_type = adb.device_name
        /\ ~adb.root =>
              /\ obs.err = NoErr
              /\ Count(obs.log, CmdBoard) = 0
              /\ adb.board_type =
                    (IF adb.device_name = HAMMERHEAD THEN "SN_UNKNOWN" ELSE "HN_UNKNOWN")
        /\ adb.root =>
              /\ At(obs.log, CmdBoard) = {Len(obs.log)}
              /\ ( /\ ExitedZero(obs.log, Len(obs.log))
                   /\ IntOf(dev.board) \in BoardTypeValues ) =>
                    /\ obs.err = NoErr
                    /\ adb.board_type = BoardTypeMember(IntOf(dev.board))

\* an unrooted greatwhite gets the placeholder of its family
C13_Witness ==
    /\ obs.op = "bind" /\ obs.err = NoErr /\ ~adb.root
    /\ adb.device_name = GREATWHITE /\ adb.board_type = "HN_UNKNOWN"

\* the operations C14 is about, and the last entry of the log of a call
TimeoutOps ==
    { "assert_root", "assert_remount", "wait_for_device", "set_factory_mode",
      "assert_factory_mode", "assert_disable_vendor_MCS", "assert_enable_vendor_MCS" }
TimedOut == \E i \in 1..Len(obs.log) : obs.log[i].ev = "timeout"
LastCmd == obs.log[Len(obs.log)].cmd

\* what C14 states apart from the flags: the call raises, the command that
\* timed out is the last entry of the log and was issued once
TimeoutIsFatal ==
    /\ obs.err = TimeoutExpired
    /\ \A i \in 1..Len(obs.log) : obs.log[i].ev = "timeout" => i = Len(obs.log)
    /\ Count(obs.log, LastCmd) = 1

\* the flags an operation sets other than root
TimeoutKeepsOtherFlags ==
    /\ obs.op \in {"assert_remount", "wait_for_device", "set_factory_mode"} =>
          adb = obs.pre
    /\ obs.op = "assert_factory_mode" =>
          /\ LastCmd = CmdRoot => adb = obs.pre
          /\ LastCmd \in TransitionCmds => ~adb.factory_mode
    /\ obs.op \in {"assert_disable_vendor_MCS", "assert_enable_vendor_MCS"} =>
          adb.vendor_mcs_enabled = obs.pre.vendor_mcs_enabled

-----------------------------------------------------------------------------
(* CommandResult (ResultSpec) *)

(* C15: succeeded is true iff the exit code is 0, and assert_succeeded      *)
(* raises ADBAssertionError iff the exit code is not 0 and returns          *)
(* otherwise.                                                               *)
C15_SucceededIffZero ==
    /\ obs.op = "succeeded" => (obs.ret.b <=> obs.res.rc = 0) /\ obs.err = NoErr
    /\ obs.op = "assert_succeeded" =>
          /\ obs.err = ADBAssertionError <=> obs.res.rc # 0
          /\ obs.err = NoErr <=> obs.res.rc = 0

C15_Witness ==
    obs.op = "assert_succeeded" /\ obs.res.rc = 255 /\ obs.err = ADBAssertionError

(* C16 as claimed: assert_string returns the trimmed stdout iff the exit    *)
(* code is 0 and stdout, with the white space and newlines around it        *)
(* trimmed, is exactly one non-empty line; otherwise it raises              *)
(* ADBAssertionError.                                                       *)
C16_Original ==
    obs.op = "assert_string" =>
        /\ obs.err = NoErr <=> (obs.res.rc = 0 /\ Len(TextLines(obs.res.out)) = 1)
        /\ obs.err = NoErr => obs.ret.s = strip(TextLines(obs.res.out)[1])
        /\ obs.err # NoErr => obs.err = ADBAssertionError

(* C16 amended: assert_string returns the stripped stdout iff the exit code *)
(* is 0 and stdout, untrimmed, has exactly one line and that line is not    *)
(* blank; otherwise (non-zero exit, empty or blank stdout, two or more      *)
(* lines, blank ones counted) it raises ADBAssertionError.                  *)
C16_Amended ==
    obs.op = "assert_string" =>
        /\ obs.err = NoErr <=>
              /\ obs.res.rc = 0
              /\ Len(obs.res.out) = 1
              /\ ~IsBlank(obs.res.out[1])
        /\ obs.err = NoErr => obs.ret.s = strip(obs.res.out[1])
        /\ obs.err # NoErr => obs.err = ADBAssertionError

\* a line with blanks around its text is returned stripped
C16_Witness ==
    /\ obs.op = "assert_string" /\ obs.err = NoErr
    /\ obs.res.out = <<" abc ">> /\ obs.ret.s = "abc"

(* C17: assert_int returns the integer when assert_string yields the text   *)
(* of a base-10 integer; a single line that is no integer raises the        *)
(* 'supposed to be an integer' error; a failed command, an empty stdout or  *)
(* a multi-line stdout raises the error of assert_succeeded or of           *)
(* assert_string, with their messages, never the integer one.               *)
C17_AssertInt ==
    obs.op = "assert_int" =>
        \A y \in result_assert_string({[Machine(adb, dev, attended) EXCEPT !.res = obs.res]}) :
            /\ (y.err = NoErr /\ IsIntText(y.ret.s)) =>
                  obs.err = NoErr /\ obs.ret.i = IntOf(y.ret.s)
            /\ (y.err = NoErr /\ ~IsIntText(y.ret.s)) =>
                  obs.err = ADBAssertionError /\ obs.msg = MsgInt
            /\ y.err # NoErr =>
                  /\ obs.err = y.err /\ obs.msg = y.msg
                  /\ obs.msg = (IF obs.res.rc # 0 THEN MsgFailed ELSE MsgSingle)

\* the three outcomes
C17_Witness ==
    /\ obs.op = "assert_int" /\ obs.res.rc = 0 /\ obs.res.out = <<"x7">>
    /\ obs.err = ADBAssertionError /\ obs.msg = MsgInt

(* C18: assert_json on a result whose exit code is not 0 raises, even when  *)
(* stdout is valid JSON; a call that raises leaves the JSON cache as it     *)
(* was, and the cache is absent until an assert_json call returned.         *)
C18_AssertJsonRequiresSuccess ==
    /\ (obs.op = "assert_json" /\ obs.res.rc # 0) => obs.err = ADBAssertionError
    /\ (obs.op = "assert_json" /\ obs.err # NoErr) =>
          result.json_data = obs.res.json_data
    /\ result.json_data # obs.res.json_data =>
          obs.op \in {"assert_json", "assert_mfg_succeeded"}
    /\ obs.op = "idle" => result.json_data = NoJson

(* C19: assert_mfg_succeeded returns iff the exit code is 0, stdout is JSON *)
(* and its status member is "Success"; otherwise it raises                  *)
(* ADBAssertionError and no other exception: 'not Success' for another      *)
(* status, the decode error for stdout that is no JSON, and an assertion    *)
(* error too for JSON without a status member.                              *)
C19_MfgSucceeded ==
    obs.op = "assert_mfg_succeeded" =>
        /\ obs.err = NoErr <=>
              /\ obs.res.rc = 0
              /\ IsJson(obs.res.out)
              /\ loads(obs.res.out).status = "Success"
        /\ obs.err # NoErr => obs.err = ADBAssertionError
        /\ (obs.res.rc = 0 /\ ~IsJson(obs.res.out)) => obs.msg = MsgJson
        /\ (obs.res.rc = 0 /\ IsJson(obs.res.out)
               /\ loads(obs.res.out).status \notin {"Success", "absent"}) =>
              obs.msg = MsgMfg

(* C20: search never raises: it returns None when the pattern does not      *)
(* match and the first capture group when it does; assert_search raises     *)
(* ADBAssertionError exactly when search returns None and otherwise         *)
(* returns what search returns.                                             *)
C20_SearchNeverRaises ==
    /\ obs.op = "search" =>
          /\ obs.err = NoErr
          /\ obs.ret.o = None <=> ~contains(obs.res, obs.arg.lit)
          /\ (obs.arg.group = "text" /\ contains(obs.res, obs.arg.lit)) =>
                obs.ret.o = Some(obs.arg.lit)
    /\ obs.op = "assert_search" =>
          /\ obs.err = ADBAssertionError <=> ~contains(obs.res, obs.arg.lit)
          /\ obs.err = NoErr <=> contains(obs.res, obs.arg.lit)

-----------------------------------------------------------------------------
(* C21: assert_stderr_keyvalue raises ADBAssertionError iff the exit code  *)
(* is not 0; otherwise, for every sequence of white-space delimited tokens *)
(* of stderr, it returns the mapping whose keys are exactly the keys of    *)
(* the tokens that match, each with the value of the last matching token   *)
(* that has the key.  Tokens that do not match are skipped: they neither   *)
(* fail the call nor add a key.                                            *)
Tokens == split(obs.res.stderr)
Matching == { i \in 1..Len(Tokens) : ~re_search(obs.arg, Tokens[i]).absent }
LastWith(key) ==
    CHOOSE i \in Matching :
        /\ re_search(obs.arg, Tokens[i]).key = key
        /\ \A j \in Matching : re_search(obs.arg, Tokens[j]).key = key => j <= i
C21_StderrKeyvalue ==
    obs.op = "assert_stderr_keyvalue" =>
        /\ obs.err = NoErr <=> obs.res.rc = 0
        /\ obs.err # NoErr => obs.err = ADBAssertionError /\ obs.msg = MsgFailed
        /\ obs.err = NoErr =>
              /\ { e[1] : e \in obs.ret.kv } =
                    { re_search(obs.arg, Tokens[i]).key : i \in Matching }
              /\ \A e \in obs.ret.kv :
                    e[2] = re_search(obs.arg, Tokens[LastWith(e[1])]).val
              /\ \A e, f \in obs.ret.kv : e[1] = f[1] => e = f

C21_Witness ==
    /\ obs.op = "assert_stderr_keyvalue" /\ obs.err = NoErr
    /\ obs.res.stderr = <<"a=1", " ", "warn", "\n", "a=2">>
    /\ obs.ret.kv = {<<"a", "2">>}

-----------------------------------------------------------------------------
(* C22: the two interaction points follow the attended/unattended split.   *)
(* Attended, each blocks in input() and returns only after the user has    *)
(* pressed ENTER.  Unattended, prompt_user_timed_process sleeps and        *)
(* returns only when timeout_secs seconds have gone by, without asking the *)
(* user; prompt_user_validate returns at once, neither asking nor          *)
(* sleeping.  Neither raises.                                              *)
C22_AttendedSplit ==
    obs.op \in {"prompt_user_timed_process", "prompt_user_validate"} =>
        /\ obs.err = NoErr
        /\ attended =>
              /\ obs.pc \in {"input", "returned"}
              /\ obs.pc = "returned" <=> obs.acked
              /\ obs.elapsed = 0
        /\ (~attended /\ obs.op = "prompt_user_timed_process") =>
              /\ obs.pc \in {"sleep", "returned"}
              /\ obs.pc = "returned" => obs.elapsed = obs.secs
              /\ ~obs.acked
        /\ (~attended /\ obs.op = "prompt_user_validate") =>
              obs.pc = "returned" /\ obs.elapsed = 0 /\ ~obs.acked

C22_Witness ==
    /\ ~attended /\ obs.op = "prompt_user_timed_process"
    /\ obs.pc = "returned" /\ obs.secs = 2 /\ obs.elapsed = 2

-----------------------------------------------------------------------------
(* C23: a setup failure is surfaced before any command is issued to the    *)
(* device: a NeoADBTestSession constructor that raises                     *)
(* InitializationError has issued no adb or fastboot command.              *)
C23_SetupFailureBeforeDevice ==
    (obs.op = "NeoADBTestSession" /\ obs.err = InitializationError) =>
        Cmds(obs.log) = <<>>

-----------------------------------------------------------------------------
(* C24: every ADBAssertionError raised by an assert of a command result    *)
(* carries the full argv, the exit code, stdout and stderr of the command. *)
C24_FailureCarriesAll ==
    obs.err = ADBAssertionError =>
        Carries(obs.msg) = {"argv", "exit code", "stdout", "stderr"}

-----------------------------------------------------------------------------
(* C25: after any sequence of session operations, the camera capture is    *)
(* issued only while the vendor services of the device are stopped.  The   *)
(* capture is the last command of assert_camcapture and leaves the device  *)
(* as it was, so the device after the call is the device it ran on.        *)
CmdCamcapture == <<"adb", "shell", "camcapture", "-c", "0">>
C25_CaptureOnlyWhileStopped ==
    (obs.op = "assert_camcapture" /\ At(obs.log, CmdCamcapture) # {}) =>
        dev.running \cap VendorServices = {}

-----------------------------------------------------------------------------
(* C26: on a session whose cached root and factory_mode are false while    *)
(* the device is in factory mode, assert_factory_mode escalates, the       *)
(* on_root hook reads /proc/cmdline and sets the cached factory_mode, and  *)
(* the call returns: it issues 'adb root' and the read, in this order and  *)
(* stopping at the first that fails, and neither a reboot nor a command of *)
(* the flashing transport.                                                 *)
C26_RedetectOnRoot ==
    ( /\ obs.op = "assert_factory_mode"
      /\ ~obs.pre.root /\ ~obs.pre.factory_mode /\ obs.predev.factory ) =>
        LET expected == <<Cmd(CmdRoot), Cmd(CmdCmdline)>>
        IN  /\ IsPrefix(Steps(obs.log), expected)
            /\ obs.err = NoErr <=> (Steps(obs.log) = expected /\ AllExitedZero(obs.log))
            /\ obs.err = NoErr => adb.root /\ adb.factory_mode
            /\ adb.factory_mode => obs.err = NoErr
            /\ Cycles(obs.log) = 0
            /\ \A i \in 1..Len(obs.log) : obs.log[i].cmd[1] # "fastboot"
            /\ dev.factory /\ dev.mode = obs.predev.mode

C26_Witness ==
    /\ obs.op = "assert_factory_mode"
    /\ ~obs.pre.root /\ ~obs.pre.factory_mode /\ obs.predev.factory
    /\ obs.err = NoErr /\ adb.root /\ adb.factory_mode
    /\ Steps(obs.log) = <<Cmd(CmdRoot), Cmd(CmdCmdline)>>

-----------------------------------------------------------------------------
(* C27: unattended, with every command ending by the exit of its process   *)
(* or by its timeout, a high-level operation returns or raises after a     *)
(* bounded number of steps: it never asks for input, issues no command     *)
(* twice, issues nothing after a timeout, and takes at most MostSteps      *)
(* steps (commands and fixed waits).                                       *)
\* the steps of the longest operation, an escalation and a transition
MostSteps == Len(RootSteps(ClassDefaults) \o TransitionSteps(FALSE, TRUE))
C27_UnattendedEnds ==
    (~attended /\ obs.op \in TimeoutOps) =>
        /\ obs.err \in {NoErr, ADBAssertionError, TimeoutExpired}
        /\ \A i \in 1..Len(obs.log) : obs.log[i].ev \in {"run", "timeout", "sleep"}
        /\ \A i, j \in 1..Len(obs.log) : obs.log[i].cmd = obs.log[j].cmd => i = j
        /\ \A i \in 1..Len(obs.log) : obs.log[i].ev = "timeout" => i = Len(obs.log)
        /\ Len(obs.log) <= MostSteps

\* the longest operation: escalation and a whole factory-mode transition
C27_Witness ==
    /\ ~attended /\ obs.op = "assert_factory_mode" /\ obs.err = NoErr
    /\ Len(obs.log) = MostSteps /\ Cycles(obs.log) = 1

-----------------------------------------------------------------------------
(* C28: assert_oem_device_info is idempotent by its have_oem_device_info   *)
(* cache: after a call that returned, a later call returns without a       *)
(* reboot into the flashing mode and without issuing any command.          *)
C28_OemDeviceInfoIdempotent ==
    (obs.op = "assert_oem_device_info" /\ obs.err = NoErr) =>
        \A y \in assert_oem_device_info(Here) :
            /\ NothingIssued(y.log)
            /\ Cycles(y.log) = 0
            /\ y.err = NoErr

====
